---- MODULE Spec2Model ----
(***************************************************************************)
(* Model of scripts/init_skill.py: the command line entry point main() and *)
(* create_skill_structure(), which scaffolds a skill directory.            *)
(*                                                                         *)
(* Strings are sequences of one-character strings.  A filesystem location  *)
(* is the sequence of its components below "/", each component a string in *)
(* that sense.  POSIX path rules are assumed (the docstring's example is   *)
(* /home/claude/...).                                                      *)
(***************************************************************************)
EXTENDS Integers, Sequences, FiniteSets, TLC

\* ------------------------------------------------------------------ bounds
MaxNameLen == 2
MaxEdits == 1

\* ----------------------------------------------------------------- strings
Alphabet == {"a", "/", "\"", "\\"}

StringsUpTo(n) == UNION {[1..k -> Alphabet] : k \in 0..n}

\* args.path when --path is omitted (default=None, line 308)
None == <<"None">>

\* Python truthiness of an Optional[str]: None and "" are both false.
Truthy(s) == s # None /\ Len(s) > 0

\* ------------------------------------------------------------------- paths
\* The components of a path string: split on "/", empty components dropped.
RECURSIVE SplitAcc(_, _, _)
SplitAcc(s, cur, acc) ==
    IF s = <<>>
    THEN IF cur = <<>> THEN acc ELSE Append(acc, cur)
    ELSE IF Head(s) = "/"
         THEN SplitAcc(Tail(s), <<>>, IF cur = <<>> THEN acc ELSE Append(acc, cur))
         ELSE SplitAcc(Tail(s), Append(cur, Head(s)), acc)

\* pathlib.Path(s): anchored at the root when s starts with "/".
PathOf(s) == [abs |-> Len(s) > 0 /\ s[1] = "/", parts |-> SplitAcc(s, <<>>, <<>>)]

\* a / b of pathlib: an absolute right operand replaces the left one.
PathJoin(a, b) == IF b.abs THEN b ELSE [abs |-> a.abs, parts |-> a.parts \o b.parts]

\* Path.cwd(): the working directory of the process, /w.
Cwd == [abs |-> TRUE, parts |-> << <<"w">> >>]

\* The location the operating system resolves a Path to.
Locate(p) == IF p.abs THEN p.parts ELSE Cwd.parts \o p.parts

\* A path literal of the script such as "src" or "README.md", one component.
Lit(s) == [abs |-> FALSE, parts |-> << <<s>> >>]

\* The value of a local that has not been assigned yet.
Unset == [abs |-> FALSE, parts |-> <<>>]

\* Lines 35-38: the skill directory.
SkillDir(skill_name, base_path) ==
    IF Truthy(base_path)
    THEN PathOf(base_path)
    ELSE PathJoin(Cwd, PathOf(skill_name))

\* -------------------------------------------------------------- filesystem
DirEntry == [kind |-> "dir", tpl |-> "", text |-> <<>>]
FileEntry(tpl, text) == [kind |-> "file", tpl |-> tpl, text |-> text]

Exists(f, k) == k \in DOMAIN f
IsDir(f, k) == k \in DOMAIN f /\ f[k].kind = "dir"
IsFile(f, k) == k \in DOMAIN f /\ f[k].kind = "file"
Parent(k) == SubSeq(k, 1, Len(k) - 1)
Prefix(k, i) == SubSeq(k, 1, i)
Put(f, k, e) == [x \in DOMAIN f \cup {k} |-> IF x = k THEN e ELSE f[x]]

\* The lookup of the directory that is to hold k: the first ancestor that
\* is missing (ENOENT) or is no directory (ENOTDIR).
WalkErr(f, k) ==
    LET bad == {i \in 0..(Len(k) - 1) : ~IsDir(f, Prefix(k, i))}
        first == CHOOSE i \in bad : \A j \in bad : i <= j
    IN IF bad = {} THEN "ok"
       ELSE IF Exists(f, Prefix(k, first)) THEN "ENOTDIR" ELSE "ENOENT"

\* os.mkdir(k)
OsMkdirErr(f, k) ==
    IF WalkErr(f, k) # "ok" THEN WalkErr(f, k)
    ELSE IF Exists(f, k) THEN "EEXIST" ELSE "ok"

\* Path.mkdir(parents, exist_ok) as pathlib implements it on os.mkdir.
RECURSIVE Mkdir(_, _, _, _)
Mkdir(f, k, parents, exist_ok) ==
    LET err == OsMkdirErr(f, k) IN
    IF err = "ok" THEN [ok |-> TRUE, fs |-> Put(f, k, DirEntry)]
    ELSE IF err = "ENOENT"
         THEN IF ~parents \/ k = <<>>
              THEN [ok |-> FALSE, fs |-> f]
              ELSE LET r == Mkdir(f, Parent(k), TRUE, TRUE) IN
                   IF r.ok THEN Mkdir(r.fs, k, FALSE, exist_ok) ELSE r
         ELSE IF ~exist_ok \/ ~IsDir(f, k)
              THEN [ok |-> FALSE, fs |-> f]
              ELSE [ok |-> TRUE, fs |-> f]

\* open(k, "w"): the errors the state of the filesystem decides.
OpenErr(f, k) ==
    IF WalkErr(f, k) # "ok" THEN WalkErr(f, k)
    ELSE IF IsDir(f, k) THEN "EISDIR" ELSE "ok"

\* A write_text that replaces nothing that is already there.
WriteTextKeep(f, k, e) == IF Exists(f, k) THEN f ELSE Put(f, k, e)

\* Path.write_text(content): create or truncate, then write.
WriteText(f, k, e) == Put(f, k, e)

\* ---------------------------------------------------------------- templates
\* Lines 45-50.
directories == <<"src", "tests", "docs", "examples">>

\* A plan that writes README.md after the other files.
FilesReadmeLast ==
    << [dir |-> "", file |-> "skill.json"],
       [dir |-> "src", file |-> "main.py"],
       [dir |-> "src", file |-> "__init__.py"],
       [dir |-> "", file |-> ".gitignore"],
       [dir |-> "tests", file |-> "test_main.py"],
       [dir |-> "tests", file |-> "__init__.py"],
       [dir |-> "examples", file |-> "example.md"],
       [dir |-> "docs", file |-> "api.md"],
       [dir |-> "", file |-> "README.md"] >>

\* A plan that forgets the documentation stub.
FilesNoDocs ==
    << [dir |-> "", file |-> "README.md"],
       [dir |-> "", file |-> "skill.json"],
       [dir |-> "src", file |-> "main.py"],
       [dir |-> "src", file |-> "__init__.py"],
       [dir |-> "", file |-> ".gitignore"],
       [dir |-> "tests", file |-> "test_main.py"],
       [dir |-> "tests", file |-> "__init__.py"],
       [dir |-> "examples", file |-> "example.md"] >>

\* The write_text calls of create_skill_structure, in the order of the code
\* (lines 101, 117, 137, 142, 192, 218, 223, 243, 274).
Files ==
    << [dir |-> "", file |-> "README.md"],
       [dir |-> "", file |-> "skill.json"],
       [dir |-> "src", file |-> "main.py"],
       [dir |-> "src", file |-> "__init__.py"],
       [dir |-> "", file |-> ".gitignore"],
       [dir |-> "tests", file |-> "test_main.py"],
       [dir |-> "tests", file |-> "__init__.py"],
       [dir |-> "examples", file |-> "example.md"],
       [dir |-> "docs", file |-> "api.md"] >>

\* The program counter of create_skill_structure: 1 is the mkdir of the
\* skill directory, then one step per subdirectory, one per file, and the
\* closing report.
FirstDirStep == 2
FirstFileStep == FirstDirStep + Len(directories)
LastStep == FirstFileStep + Len(Files)

FileLabel(w) == IF w.dir = "" THEN w.file ELSE w.dir \o "/" \o w.file

\* skill_dir / "src" / "main.py"
FilePath(sd, w) ==
    IF w.dir = ""
    THEN PathJoin(sd, Lit(w.file))
    ELSE PathJoin(PathJoin(sd, Lit(w.dir)), Lit(w.file))

\* str.replace("-", "_")
RECURSIVE ReplaceDash(_)
ReplaceDash(s) ==
    IF s = <<>> THEN <<>>
    ELSE <<IF Head(s) = "-" THEN "_" ELSE Head(s)>> \o ReplaceDash(Tail(s))

\* str.title(): a letter is upper-cased after a non-letter (or at the
\* start) and lower-cased after a letter.
RECURSIVE TitleFrom(_, _)
TitleFrom(s, afterLetter) ==
    IF s = <<>> THEN <<>>
    ELSE IF Head(s) \in {"a", "A"}
         THEN <<IF afterLetter THEN "a" ELSE "A">> \o TitleFrom(Tail(s), TRUE)
         ELSE <<Head(s)>> \o TitleFrom(Tail(s), FALSE)

Title(s) == TitleFrom(s, FALSE)

\* Lines 106-115: the text of skill.json around the substituted name.
JsonHead == <<"{", "\n", "\"", "name", "\"", ":", "\"">>
JsonTail == <<"\"", ",", "\n", "\"", "version", "\"", ":", "\"", "0.1.0", "\"", ",", "...">>
SkillJsonText(skill_name) == JsonHead \o skill_name \o JsonTail

\* The text each template renders to; the fixed parts that no substitution
\* reaches are left out.
Render(w, skill_name) ==
    CASE w.file = "README.md" -> FileEntry(w.file, <<"# ">> \o skill_name)
      [] w.file = "skill.json" -> FileEntry(w.file, SkillJsonText(skill_name))
      [] w.file = "main.py" ->
            FileEntry(w.file, <<"Hello from ">> \o skill_name \o <<"!">>)
      [] w.file = "__init__.py" /\ w.dir = "src" ->
            FileEntry(w.file, skill_name \o <<" skill package.">>)
      [] w.file = ".gitignore" -> FileEntry(w.file, <<>>)
      [] w.file = "test_main.py" ->
            FileEntry(w.file, skill_name \o <<"class Test">> \o Title(ReplaceDash(skill_name)))
      [] w.file = "__init__.py" /\ w.dir = "tests" -> FileEntry(w.file, <<>>)
      [] w.file = "example.md" -> FileEntry(w.file, <<"# Example Usage of ">> \o skill_name)
      [] w.file = "api.md" -> FileEntry(w.file, <<"# ">> \o skill_name \o <<" Documentation">>)

\* ------------------------------------------------------------------ output
Line(fmt, arg, dir) == [fmt |-> fmt, arg |-> arg, dir |-> dir]

\* Lines 42, 55, 103, 119, ...: the line printed after step ip.
ProgressLine(ip, sd) ==
    IF ip = 1 THEN Line("Created skill directory: {skill_dir}", <<>>, sd)
    ELSE IF ip < FirstFileStep
         THEN Line("Created directory: {directory}/", <<directories[ip - FirstDirStep + 1]>>, Unset)
         ELSE Line("Created " \o FileLabel(Files[ip - FirstFileStep + 1]), <<>>, Unset)

\* A closing report without the hint.
SummaryShort(skill_name, sd) ==
    << Line("Skill '{skill_name}' initialized successfully at: {skill_dir}", skill_name, sd) >>

\* Lines 278-283.
Summary(skill_name, sd) ==
    << Line("Skill '{skill_name}' initialized successfully at: {skill_dir}", skill_name, sd),
       Line("Next steps:", <<>>, Unset),
       Line("  1. cd {skill_dir}", <<>>, sd),
       Line("  2. Edit src/main.py to implement your skill logic", <<>>, Unset),
       Line("  3. Update README.md with your skill's documentation", <<>>, Unset),
       Line("  4. Add tests in tests/test_main.py", <<>>, Unset) >>

\* Line 317.
ErrorLine(e) == Line("Error: {e}", <<e>>, Unset)

\* What argparse writes when the positional argument is missing.
UsageLines ==
    << Line("usage: init_skill.py [-h] [--path PATH] skill_name", <<>>, Unset),
       Line("error: the following arguments are required: skill_name", <<>>, Unset) >>

\* An exit that reports success.
ErrorExitZero == 1 - 1

\* Line 318: sys.exit(1).
ErrorExit == 1

\* An except block that puts the filesystem back as the run found it.
ExceptBlockRollback(f, f0) == f0

\* Lines 316-318: the except block prints and exits; it touches no file.
ExceptBlock(f, f0) == f

\* ------------------------------------------------------------------- state
VARIABLES
    fs,         \* the filesystem: location -> entry
    faulty,     \* whether the system fails calls for reasons of its own
                \* (permission denied, disk full)
    argv,       \* per process: the command line
    pc,         \* per process: "idle", "args", "run", "done", "failed", "usage"
    ip,         \* per process: the step create_skill_structure is at
    skill_dir,  \* per process: the local skill_dir
    stdout,     \* per process: the lines printed to sys.stdout
    stderr,     \* per process: the lines printed to sys.stderr
    status,     \* per process: the exit status, -1 while it has not exited
    fs0,        \* per process: the filesystem the process started on
    log,        \* per process: the filesystem calls it has issued, in order
    lastWriter, \* location -> the process whose write_text completed last
    edits       \* how many edits the user has made between the runs

vars == <<fs, faulty, argv, pc, ip, skill_dir, stdout, stderr, status, fs0, log,
          lastWriter, edits>>

Procs == {1, 2}

Exited(p) == pc[p] \in {"done", "failed", "usage"}

Call(op, k, ok) == [op |-> op, key |-> k, ok |-> ok]

\* The except block of main (lines 316-318), entered from a failed call.
Raise(p, f, op, k, e) ==
    /\ fs' = ExceptBlock(f, fs0[p])
    /\ log' = [log EXCEPT ![p] = Append(@, Call(op, k, FALSE))]
    /\ stderr' = [stderr EXCEPT ![p] = Append(@, ErrorLine(e))]
    /\ status' = [status EXCEPT ![p] = ErrorExit]
    /\ pc' = [pc EXCEPT ![p] = "failed"]
    /\ UNCHANGED <<faulty, argv, ip, skill_dir, stdout, fs0, lastWriter, edits>>

\* A completed call followed by its print.
Proceed(p, f, op, k) ==
    /\ fs' = f
    /\ log' = [log EXCEPT ![p] = Append(@, Call(op, k, TRUE))]
    /\ stdout' = [stdout EXCEPT ![p] = Append(@, ProgressLine(ip[p], skill_dir[p]))]
    /\ ip' = [ip EXCEPT ![p] = @ + 1]
    /\ UNCHANGED <<faulty, argv, pc, skill_dir, stderr, status, fs0, edits>>

\* ----------------------------------------------------------------- actions
\* Line 312: parse_args() without the positional argument exits with 2.
ParseFail(p) ==
    /\ pc[p] = "args"
    /\ ~argv[p].given
    /\ stderr' = [stderr EXCEPT ![p] = UsageLines]
    /\ status' = [status EXCEPT ![p] = 2]
    /\ pc' = [pc EXCEPT ![p] = "usage"]
    /\ UNCHANGED <<fs, faulty, argv, ip, skill_dir, stdout, fs0, log, lastWriter, edits>>

\* Lines 312-315 and 35-38: the call of create_skill_structure.
ParseOk(p) ==
    /\ pc[p] = "args"
    /\ argv[p].given
    /\ skill_dir' = [skill_dir EXCEPT ![p] = SkillDir(argv[p].skill_name, argv[p].path)]
    /\ pc' = [pc EXCEPT ![p] = "run"]
    /\ ip' = [ip EXCEPT ![p] = 1]
    /\ UNCHANGED <<fs, faulty, argv, stdout, stderr, status, fs0, log, lastWriter, edits>>

\* Lines 41-42.
MkRootOk(p) ==
    /\ pc[p] = "run" /\ ip[p] = 1
    /\ LET k == Locate(skill_dir[p])
           r == Mkdir(fs, k, TRUE, TRUE)
       IN /\ r.ok
          /\ Proceed(p, r.fs, "mkdir", k)
          /\ UNCHANGED lastWriter

\* Line 41 raising: the state of the filesystem forbids the call, or the
\* system fails it after it made some of the parents.
MkRootFail(p) ==
    /\ pc[p] = "run" /\ ip[p] = 1
    /\ LET k == Locate(skill_dir[p])
           r == Mkdir(fs, k, TRUE, TRUE)
       IN \/ /\ ~r.ok
             /\ Raise(p, r.fs, "mkdir", k, "OSError")
          \/ /\ faulty
             /\ \E i \in 0..Len(k) :
                   /\ i < Len(k) \/ i = 0
                   /\ LET q == Mkdir(fs, Prefix(k, i), TRUE, TRUE)
                      IN /\ q.ok
                         /\ Raise(p, q.fs, "mkdir", k, "PermissionError")

\* Lines 52-55, one pass of the loop.
MkSubdirOk(p) ==
    /\ pc[p] = "run" /\ ip[p] >= FirstDirStep /\ ip[p] < FirstFileStep
    /\ LET k == Locate(PathJoin(skill_dir[p], Lit(directories[ip[p] - FirstDirStep + 1])))
           r == Mkdir(fs, k, FALSE, TRUE)
       IN /\ r.ok
          /\ Proceed(p, r.fs, "mkdir", k)
          /\ UNCHANGED lastWriter

\* Line 54 raising.
MkSubdirFail(p) ==
    /\ pc[p] = "run" /\ ip[p] >= FirstDirStep /\ ip[p] < FirstFileStep
    /\ LET k == Locate(PathJoin(skill_dir[p], Lit(directories[ip[p] - FirstDirStep + 1])))
           r == Mkdir(fs, k, FALSE, TRUE)
       IN \/ /\ ~r.ok
             /\ Raise(p, r.fs, "mkdir", k, "OSError")
          \/ /\ faulty
             /\ Raise(p, fs, "mkdir", k, "PermissionError")

\* Lines 101-103, 117-119, ..., 274-276: one write_text and its print.
WriteOk(p) ==
    /\ pc[p] = "run" /\ ip[p] >= FirstFileStep /\ ip[p] < LastStep
    /\ LET w == Files[ip[p] - FirstFileStep + 1]
           k == Locate(FilePath(skill_dir[p], w))
       IN /\ OpenErr(fs, k) = "ok"
          /\ Proceed(p, WriteText(fs, k, Render(w, argv[p].skill_name)), "write", k)
          /\ lastWriter' = Put(lastWriter, k, p)

\* A write_text raising: open() fails and the file is as it was, or the
\* write fails after open() truncated the file.
WriteFail(p) ==
    /\ pc[p] = "run" /\ ip[p] >= FirstFileStep /\ ip[p] < LastStep
    /\ LET w == Files[ip[p] - FirstFileStep + 1]
           k == Locate(FilePath(skill_dir[p], w))
       IN \/ /\ OpenErr(fs, k) # "ok"
             /\ Raise(p, fs, "write", k, "OSError")
          \/ /\ faulty
             /\ Raise(p, fs, "write", k, "PermissionError")
          \/ /\ faulty
             /\ OpenErr(fs, k) = "ok"
             /\ Raise(p, WriteText(fs, k, FileEntry("truncated", <<>>)), "write", k, "OSError")

\* Lines 278-283, and the return to main, which ends the process with 0.
Finish(p) ==
    /\ pc[p] = "run" /\ ip[p] = LastStep
    /\ stdout' = [stdout EXCEPT ![p] = @ \o Summary(argv[p].skill_name, skill_dir[p])]
    /\ status' = [status EXCEPT ![p] = 0]
    /\ pc' = [pc EXCEPT ![p] = "done"]
    /\ UNCHANGED <<fs, faulty, argv, ip, skill_dir, stderr, fs0, log, lastWriter, edits>>

\* ------------------------------------------------------------- environment
\* The user changes a file of the first run's scaffold before running again.
EditFile ==
    /\ pc[1] = "done" /\ pc[2] = "idle" /\ edits < MaxEdits
    /\ \E i \in 1..Len(Files) :
          LET k == Locate(FilePath(skill_dir[1], Files[i]))
          IN /\ IsFile(fs, k)
             /\ fs' = Put(fs, k, FileEntry("edited", <<>>))
    /\ edits' = edits + 1
    /\ UNCHANGED <<faulty, argv, pc, ip, skill_dir, stdout, stderr, status, fs0, log, lastWriter>>

\* The user adds a file of their own to the first run's scaffold.
AddFile ==
    /\ pc[1] = "done" /\ pc[2] = "idle" /\ edits < MaxEdits
    /\ LET k == Append(Locate(skill_dir[1]), <<"notes.txt">>)
       IN /\ IsDir(fs, Parent(k))
          /\ ~Exists(fs, k)
          /\ fs' = Put(fs, k, FileEntry("notes", <<>>))
    /\ edits' = edits + 1
    /\ UNCHANGED <<faulty, argv, pc, ip, skill_dir, stdout, stderr, status, fs0, log, lastWriter>>

\* The same command line is run again.
Rerun ==
    /\ Exited(1) /\ pc[2] = "idle"
    /\ pc' = [pc EXCEPT ![2] = "args"]
    /\ fs0' = [fs0 EXCEPT ![2] = fs]
    /\ UNCHANGED <<fs, faulty, argv, ip, skill_dir, stdout, stderr, status, log, lastWriter, edits>>

\* ---------------------------------------------------------- initial states
Names == StringsUpTo(MaxNameLen)

\* --path values: omitted, empty, absolute, relative.
PathArgs == {None, <<>>, <<"/", "p">>, <<"q">>}

\* The command lines over names ns and --path values bs, and the one
\* without its positional argument.
CommandLines(ns, bs) ==
    {[given |-> TRUE, skill_name |-> n, path |-> b] : n \in ns, b \in bs}
    \cup {[given |-> FALSE, skill_name |-> <<>>, path |-> None]}

EmptyFs == [k \in {<<>>, Cwd.parts} |-> DirEntry]

P == << <<"p">> >>

\* A directory the user already keeps files in.
UsedFs ==
    Put(Put(Put(EmptyFs, P, DirEntry), Append(P, <<"notes.txt">>), FileEntry("notes", <<>>)),
        Append(P, <<"README.md">>), FileEntry("other", <<>>))

\* The target's name taken by a file.
TakenFs == Put(EmptyFs, P, FileEntry("other", <<>>))

\* The filesystems a run may start on: nothing there, the target taken by
\* a file, a subdirectory's name taken by a file, a file's name taken by a
\* directory, and a directory in use.
StartFs ==
    { EmptyFs,
      TakenFs,
      Put(Put(EmptyFs, P, DirEntry), Append(P, <<"src">>), FileEntry("other", <<>>)),
      Put(Put(EmptyFs, P, DirEntry), Append(P, <<"README.md">>), DirEntry),
      UsedFs }

Common(f) ==
    /\ fs = f
    /\ faulty \in BOOLEAN
    /\ ip = [p \in Procs |-> 0]
    /\ skill_dir = [p \in Procs |-> Unset]
    /\ stdout = [p \in Procs |-> <<>>]
    /\ stderr = [p \in Procs |-> <<>>]
    /\ status = [p \in Procs |-> -1]
    /\ fs0 = [p \in Procs |-> f]
    /\ log = [p \in Procs |-> <<>>]
    /\ lastWriter = << >>
    /\ edits = 0

Step(p) ==
    \/ ParseFail(p) \/ ParseOk(p)
    \/ MkRootOk(p) \/ MkRootFail(p)
    \/ MkSubdirOk(p) \/ MkSubdirFail(p)
    \/ WriteOk(p) \/ WriteFail(p)
    \/ Finish(p)

Next == \E p \in Procs : Step(p)

\* One run of one command line.
Init ==
    /\ \E f \in StartFs : Common(f)
    /\ \E c \in CommandLines(Names, PathArgs) : argv = [p \in Procs |-> c]
    /\ pc = [p \in Procs |-> IF p = 1 THEN "args" ELSE "idle"]

Spec == Init /\ [][Next]_vars

\* One command line, run, and then run again, the user changing the
\* scaffold in between.
InitRerun ==
    /\ \E f \in {EmptyFs, UsedFs} : Common(f)
    /\ \E c \in CommandLines(StringsUpTo(MaxNameLen - 1), {None, <<"/", "p">>}) :
          argv = [p \in Procs |-> c]
    /\ pc = [p \in Procs |-> IF p = 1 THEN "args" ELSE "idle"]

NextRerun == Next \/ EditFile \/ AddFile \/ Rerun

SpecRerun == InitRerun /\ [][NextRerun]_vars

\* Two processes started together on one --path.
ConcNames == {<<"a">>, <<"\"">>}

InitConc ==
    /\ \E f \in {EmptyFs, TakenFs} : Common(f)
    /\ argv \in [Procs -> CommandLines(ConcNames, {<<"/", "p">>})]
    /\ pc = [p \in Procs |-> "args"]

SpecConc == InitConc /\ [][Next]_vars

\* ================================================================== claims
\* The layout of section 6 of the specification, relative to the target.
LayoutDirs ==
    { << <<"src">> >>, << <<"tests">> >>, << <<"docs">> >>, << <<"examples">> >> }

LayoutFiles ==
    { << <<"README.md">> >>, << <<"skill.json">> >>, << <<".gitignore">> >>,
      << <<"src">>, <<"main.py">> >>, << <<"src">>, <<"__init__.py">> >>,
      << <<"tests">>, <<"test_main.py">> >>, << <<"tests">>, <<"__init__.py">> >>,
      << <<"docs">>, <<"api.md">> >>, << <<"examples">>, <<"example.md">> >> }

\* The locations strictly below t.
Below(f, t) ==
    {k \in DOMAIN f : Len(k) > Len(t) /\ Prefix(k, Len(t)) = t}

\* The directory a path string names to the operating system: from the
\* root when it starts with "/", from the working directory otherwise.
Denotes(s) ==
    IF Len(s) > 0 /\ s[1] = "/"
    THEN SplitAcc(s, <<>>, <<>>)
    ELSE Cwd.parts \o SplitAcc(s, <<>>, <<>>)

CwdString == <<"/", "w">>

HasName(p) == argv[p].given /\ argv[p].skill_name # <<>>

RootMade(p) == Len(log[p]) >= 1 /\ log[p][1].ok

\* C1 (as claimed): for a non-empty name, the directory the run creates is
\* the one --path names whenever --path is supplied, whatever the name, and
\* is <cwd>/<name> when --path is omitted.
C1_TargetIsPathOrCwdName ==
    \A p \in Procs :
        (HasName(p) /\ RootMade(p)) =>
            log[p][1].key =
                IF argv[p].path # None
                THEN Denotes(argv[p].path)
                ELSE Denotes(CwdString \o <<"/">> \o argv[p].skill_name)

\* C2: a run with a non-empty name that exits with 0 on a target that did
\* not exist leaves the target a directory holding exactly the four
\* subdirectories and nine files of the layout, and nothing else.
C2_SuccessLayout ==
    \A p \in Procs :
        LET t == Locate(skill_dir[p]) IN
        (pc[p] = "done" /\ HasName(p) /\ ~Exists(fs0[p], t)) =>
            /\ IsDir(fs, t)
            /\ Below(fs, t) = {t \o r : r \in LayoutDirs \cup LayoutFiles}
            /\ \A r \in LayoutDirs : IsDir(fs, t \o r)
            /\ \A r \in LayoutFiles : IsFile(fs, t \o r)

C2_Witness ==
    /\ pc[1] = "done" /\ HasName(1)
    /\ ~Exists(fs0[1], Locate(skill_dir[1]))
    /\ Len(Locate(skill_dir[1])) = 2

AllOk(l) == \A i \in 1..Len(l) : l[i].ok

C3_Inv ==
    \A p \in Procs :
        /\ \A i \in 1..Len(log[p]) :
              ~log[p][i].ok => (i = Len(log[p]) /\ pc[p] = "failed")
        /\ pc[p] = "failed" =>
              /\ status[p] = 1
              /\ Len(stderr[p]) = 1
              /\ Len(log[p]) >= 1 /\ ~log[p][Len(log[p])].ok
        /\ (pc[p] = "failed") <=> (status[p] = 1)
        /\ (pc[p] = "done") <=> (status[p] = 0)
        /\ (Exited(p) /\ argv[p].given) =>
              ((status[p] = 0) <=> (Len(log[p]) = 14 /\ AllOk(log[p])))
        /\ (~Exited(p)) => status[p] = -1

C3_Final ==
    \A p \in Procs :
        Exited(p) =>
            /\ pc'[p] = pc[p] /\ status'[p] = status[p] /\ log'[p] = log[p]
            /\ stdout'[p] = stdout[p] /\ stderr'[p] = stderr[p]

\* C3: a failed filesystem call is the last call of its run, is followed
\* by exactly one line on stderr and exit status 1; the status is 0 exactly
\* when all fourteen calls succeeded; a run that has ended as done or
\* failed stays as it is and issues no further call.
C3_AbortOnFailure == [](C3_Inv) /\ [][C3_Final]_vars

C3_Witness == pc[1] = "failed" /\ Len(log[1]) > 3 /\ status[1] = 1

\* C4 (as claimed): a command line whose name is absent or empty issues no
\* filesystem call, ends with a non-zero status and leaves the filesystem
\* as it found it.
C4_EmptyNameRejected ==
    \A p \in Procs :
        (~HasName(p)) =>
            /\ log[p] = <<>>
            /\ Exited(p) => (status[p] # 0 /\ fs = fs0[p])

TemplateKeys(p) == {Locate(FilePath(skill_dir[p], Files[i])) : i \in 1..Len(Files)}

Rendered(p, q) ==
    \A i \in 1..Len(Files) :
        LET k == Locate(FilePath(skill_dir[p], Files[i]))
        IN IsFile(fs, k) /\ fs[k] = Render(Files[i], argv[q].skill_name)

\* C5: after a run that scaffolded a directory, running the same command
\* line again exits with 0 unless the system fails a call; after it every
\* template file holds what the first run wrote, whatever the user changed
\* in between, and every other entry is as it was before the second run.
C5_RerunOverwrites ==
    /\ (pc[1] = "done" /\ pc[2] = "idle" /\ edits = 0) => Rendered(1, 1)
    /\ (pc[1] = "done" /\ Exited(2) /\ ~faulty) => status[2] = 0
    /\ (pc[1] = "done" /\ pc[2] = "done") => Rendered(2, 1)
    /\ (pc[1] = "done" /\ pc[2] # "idle") =>
          /\ DOMAIN fs = DOMAIN fs0[2]
          /\ \A k \in DOMAIN fs0[2] \ TemplateKeys(2) : fs[k] = fs0[2][k]

C5_Witness ==
    /\ pc[1] = "done" /\ pc[2] = "done"
    /\ \E k \in TemplateKeys(2) : fs0[2][k].tpl = "edited" /\ fs[k].tpl # "edited"

\* C6 (as claimed): a run with a non-empty name has, when it ends, printed
\* either the full report and nothing on stderr, or one error line and
\* nothing else.
C6_AllOrNothingOutput ==
    \A p \in Procs :
        (Exited(p) /\ HasName(p)) =>
            \/ stderr[p] = <<>> /\ Len(stdout[p]) = 14 + 6
            \/ stdout[p] = <<>> /\ Len(stderr[p]) = 1

\* C6 (amended): a run that got past the argument parser has printed
\* either the full report (a progress line per call, in order, then the
\* six closing lines) and nothing on stderr, or the progress lines of the
\* calls that succeeded before the failing one and one error line on
\* stderr, without the closing lines.
C6_ReportOrProgressThenError ==
    \A p \in Procs :
        (Exited(p) /\ argv[p].given) =>
            /\ \A i \in 1..Len(stdout[p]) :
                  i <= 14 => stdout[p][i] = ProgressLine(i, skill_dir[p])
            /\ IF status[p] = 0
               THEN /\ stderr[p] = <<>>
                    /\ Len(stdout[p]) = 14 + 6
                    /\ stdout[p][15].fmt =
                          "Skill '{skill_name}' initialized successfully at: {skill_dir}"
                    /\ stdout[p][16].fmt = "Next steps:"
               ELSE /\ Len(stderr[p]) = 1
                    /\ stderr[p][1].fmt = "Error: {e}"
                    /\ Len(stdout[p]) = Len(log[p]) - 1
                    /\ Len(stdout[p]) < 14

C6_Witness == pc[1] = "failed" /\ Len(stdout[1]) >= 2 /\ Len(stderr[1]) = 1

\* What a JSON reader makes of a string literal whose opening quote has
\* been read: the characters up to the closing quote, "\" escaping the
\* character after it; a raw line break or an unknown escape is an error.
NotJson == <<"not JSON">>

RECURSIVE JsonString(_, _)
JsonString(s, acc) ==
    IF s = <<>> \/ Head(s) = "\n" THEN [value |-> NotJson, rest |-> <<>>]
    ELSE IF Head(s) = "\"" THEN [value |-> acc, rest |-> Tail(s)]
    ELSE IF Head(s) = "\\"
         THEN IF Len(s) >= 2 /\ s[2] \in {"\"", "\\", "/"}
              THEN JsonString(Tail(Tail(s)), Append(acc, s[2]))
              ELSE [value |-> NotJson, rest |-> <<>>]
         ELSE JsonString(Tail(s), Append(acc, Head(s)))

\* The "name" member of a skill.json text: the document has to go on after
\* the literal as the template does.
JsonNameField(text) ==
    LET r == JsonString(SubSeq(text, Len(JsonHead) + 1, Len(text)), <<>>)
    IN IF r.value # NotJson /\ r.rest = Tail(JsonTail) THEN r.value ELSE NotJson

\* C7 (as claimed): after a run with a non-empty name that exits with 0,
\* the name member of skill.json is the name argument, character for
\* character.
C7_JsonNameVerbatim ==
    \A p \in Procs :
        (pc[p] = "done" /\ HasName(p)) =>
            LET k == Append(Locate(skill_dir[p]), <<"skill.json">>)
            IN IsFile(fs, k) /\ JsonNameField(fs[k].text) = argv[p].skill_name

Rel(w) == IF w.dir = "" THEN << <<w.file>> >> ELSE << <<w.dir>>, <<w.file>> >>

\* The calls in the order section 4.1 of the specification gives them: the
\* target, the four subdirectories, and then n files.
C8_Order(p, n) ==
    LET t == Locate(skill_dir[p])
        l == log[p]
    IN /\ \A i \in 1..Len(l) :
             /\ i < Len(l) => l[i].ok
             /\ i = 1 => (l[i].op = "mkdir" /\ l[i].key = t)
             /\ i \in 2..5 =>
                   /\ l[i].op = "mkdir"
                   /\ l[i].key = Append(t, <<(<<"src", "tests", "docs", "examples">>)[i - 1]>>)
             /\ i > 5 =>
                   /\ l[i].op = "write"
                   /\ l[i].key \in {t \o r : r \in LayoutFiles}
                   /\ \A j \in 1..5 : l[j].ok
                   /\ \A j \in 6..(i - 1) : l[j].key # l[i].key
       /\ \A k \in DOMAIN lastWriter : \E i \in 6..Len(l) : l[i].key = k /\ l[i].ok
       /\ pc[p] = "done" => Len(l) = 5 + n

\* C8 (as claimed): the target is created first, then src, tests, docs and
\* examples, then eight files are written; no file is written before the
\* five directories are made, and no call starts before the one before it
\* has succeeded.
C8_EightFileWrites == HasName(1) => C8_Order(1, 8)

\* C8 (amended): the same, with nine files written, README.md first.
C8_NineFileWrites ==
    /\ C8_Order(1, 9)
    /\ Len(log[1]) >= 6 => log[1][6].key = Append(Locate(skill_dir[1]), <<"README.md">>)

C8_Witness == pc[1] = "done" /\ Len(log[1]) = 14 /\ HasName(1)

\* C9: when a run has failed, every directory made and every file written
\* by the calls before the failing one is still there, the files with the
\* text the run wrote.
C9_NoRollback ==
    \A p \in Procs :
        pc[p] = "failed" =>
            \A i \in 1..(Len(log[p]) - 1) :
                IF log[p][i].op = "mkdir"
                THEN IsDir(fs, log[p][i].key)
                ELSE /\ IsFile(fs, log[p][i].key)
                     /\ fs[log[p][i].key] = Render(Files[i - 5], argv[p].skill_name)

C9_Witness ==
    /\ pc[1] = "failed" /\ Len(log[1]) >= 8
    /\ ~Exists(fs0[1], Locate(skill_dir[1]))
    /\ IsFile(fs, log[1][6].key)

\* The tree one run of name n leaves on f0 when nothing fails.
ScaffoldOf(f0, n, t) ==
    [k \in DOMAIN f0 \cup {t} \cup {t \o Rel(Files[i]) : i \in 1..Len(Files)}
                    \cup {t \o r : r \in LayoutDirs} |->
        IF \E i \in 1..Len(Files) : k = t \o Rel(Files[i])
        THEN Render(Files[CHOOSE i \in 1..Len(Files) : k = t \o Rel(Files[i])], n)
        ELSE IF k \in DOMAIN f0 THEN f0[k] ELSE DirEntry]

BothGiven == \A p \in Procs : argv[p].given

====
